---- MODULE Spec2Model ----
(***************************************************************************)
(* Model of app/like_routes.py: the /like request (validate, detect the    *)
(* player's region, fan the like out over every token of that region,      *)
(* re-read the profile) running against a token cache that a refresher may *)
(* change at any moment, and against remote servers whose answers are      *)
(* arbitrary; and the /health-check view over the same cache.              *)
(***************************************************************************)
EXTENDS Integers, Sequences, FiniteSets, TLC

VARIABLES
    pool,           \* _token_cache: region -> ordered list of tokens
    pc,             \* position of the request inside like_player
    uid,            \* request.args.get("uid")
    idx,            \* position of detect_player_region's loop over _SERVERS
    region,         \* region returned by detect_player_region (NoRegion = None)
    player_info,    \* snapshot returned by detect_player_region (None if none)
    before_likes,   \* like_player's before_likes
    player_name,    \* like_player's player_name
    tokens,         \* send_likes' tokens, while send_likes runs
    results,        \* send_likes' results: one entry per task given to gather
    like_result,    \* send_likes' return value
    current_tokens, \* like_player's current_tokens
    calls,          \* every remote call initiated by the request, in order
    built,          \* number of like payloads built (create_protobuf + encrypt_aes)
    new_info,       \* like_player's new_info (make_request's return value)
    result,         \* the response returned by like_player (None until then)
    nresults,       \* number of responses returned
    inflight,       \* remote calls initiated and not yet resolved
    raised,         \* history: the exception that reached like_player's handler
    lookup,         \* history: how the verification lookup's exchange went
    locate_had_tokens, \* history: some region had a token during the locate stage
    answer,         \* the outcome of the probe's exchange, until line 56 reads it
    health          \* the last response of health_check (None before the first)

(* The variables of one call of like_player.                               *)
locals == <<uid, idx, region, player_info, before_likes, player_name, tokens,
            results, like_result, current_tokens, new_info>>
(* What the request has done to the outside so far.                        *)
effects == <<calls, built, inflight>>
(* How the request ended.                                                  *)
outcome == <<result, nresults, raised>>

vars == <<pool, pc, locals, effects, outcome, lookup, locate_had_tokens, answer,
          health>>

-----------------------------------------------------------------------------
(* Bounds of the model.                                                    *)
MaxTokens == 2
MaxLikes == 1
MaxUidLen == 2

(* Python's None, and the "no region" value of detect_player_region.       *)
None == [none |-> TRUE]
NoRegion == "None"

(* _SERVERS: the configured regions, in the insertion order of the dict    *)
(* given to initialize_routes.                                             *)
Servers == <<"A", "B">>
Regions == {Servers[i] : i \in 1..Len(Servers)}

(* A token is scoped to one region.  The cache holds, per region, a list   *)
(* of distinct tokens of that region: the tokens id..MaxTokens that have   *)
(* not expired yet (none, when all have).                                  *)
Token == [region : Regions, id : 1..MaxTokens]

RECURSIVE TokenRun(_, _, _)
TokenRun(r, first, n) ==
    IF n = 0 THEN <<>>
    ELSE <<[region |-> r, id |-> first]>> \o TokenRun(r, first + 1, n - 1)

TokenLists(r) ==
    {TokenRun(r, s, MaxTokens + 1 - s) : s \in 1..(MaxTokens + 1)}

PoolStates ==
    {p \in [Regions -> UNION {TokenLists(r) : r \in Regions}] :
        \A r \in Regions : p[r] \in TokenLists(r)}

(* _token_cache.get_tokens(region)                                         *)
get_tokens(r) == pool[r]

-----------------------------------------------------------------------------
(* Identifiers: strings over a digit and a character that is no digit.     *)
(* DigitChars stands for the characters of which str.isdigit is true.      *)
Chars == {"7", "a"}
DigitChars == {"7"}

RECURSIVE SeqsUpTo(_, _)
SeqsUpTo(S, n) ==
    IF n = 0 THEN {<<>>}
    ELSE LET shorter == SeqsUpTo(S, n - 1)
         IN shorter \cup {Append(s, c) : s \in {t \in shorter : Len(t) = n - 1}, c \in S}

Uids == {[given |-> FALSE, text |-> <<>>]}
        \cup {[given |-> TRUE, text |-> t] : t \in SeqsUpTo(Chars, MaxUidLen)}

(* str.isdigit(): at least one character and every character a digit.      *)
isdigit(text) == Len(text) > 0 /\ \A i \in 1..Len(text) : text[i] \in DigitChars

(* A validation that accepts an identifier as soon as one of its           *)
(* characters is a digit.                                                  *)
InvalidUid_AnyDigit(u) ==
    (~u.given \/ Len(u.text) = 0)
    \/ ~(\E i \in 1..Len(u.text) : u.text[i] \in DigitChars)

(* `not uid or not uid.isdigit()`                                          *)
InvalidUid(u) == (~u.given \/ Len(u.text) = 0) \/ ~isdigit(u.text)

-----------------------------------------------------------------------------
(* What a remote server can answer.                                        *)
Names == {"", "nick"}
Snapshot == [kind : {"profile"}, name : Names, likes : 0..MaxLikes]
Bodies == {[kind |-> "empty"], [kind |-> "garbage"]} \cup Snapshot
HttpStatuses == {200, 500}
NetOutcomes == {[err |-> TRUE]}
               \cup [err : {FALSE}, status : HttpStatuses, body : Bodies]

(* encode_uid(uid), and encrypt_aes(create_protobuf(uid, region)).         *)
encode_uid(u) == [enc |-> "uid", uid |-> u.text]
LikePayload(u, r) == [enc |-> "like", uid |-> u.text, region |-> r]

(* decode_info(bytes): a profile, or a decode failure, which shows either  *)
(* as None or as a raised exception.                                       *)
DecodeOutcomes(body) ==
    IF body.kind = "profile" THEN {body} ELSE {None, [raised |-> TRUE]}

(* async_post_request: the body whatever the transport status, None on any *)
(* exception (network error, timeout, get_headers failing).                *)
async_post_request(net) == IF net.err THEN None ELSE net.body

(* `if response:` -- None and b"" are falsy.                               *)
Truthy(resp) == resp # None /\ resp.kind # "empty"

(* A make_request that decodes the body whatever the transport status.     *)
make_request_AnyStatus(net, decoded) ==
    IF net.err THEN None
    ELSE IF decoded = [raised |-> TRUE] THEN None ELSE decoded

(* make_request: the decoded body of a 200 answer; None on any exception   *)
(* (decode_info raising included) and on any other status.                 *)
make_request(net, decoded) ==
    IF net.err THEN None
    ELSE IF net.status = 200
         THEN (IF decoded = [raised |-> TRUE] THEN None ELSE decoded)
         ELSE None

Call(kind, r, token, payload) ==
    [kind |-> kind, server |-> r, token |-> token, payload |-> payload]

-----------------------------------------------------------------------------
Pcs == {"validating", "locating", "probing", "probed", "located", "dispatching", "gathering",
        "verifying", "verify_wait", "invalid", "notfound", "completed", "failed"}

Terminal == {"invalid", "notfound", "completed", "failed"}

LocateStage == {"locating", "probing", "probed"}

HasTokens(p) == \E r \in Regions : p[r] # <<>>

TypeOK ==
    /\ pool \in PoolStates
    /\ pc \in Pcs
    /\ uid \in Uids
    /\ idx \in 1..(Len(Servers) + 1)
    /\ region \in Regions \cup {NoRegion}
    /\ player_info \in Snapshot \cup {None}
    /\ before_likes \in 0..MaxLikes
    /\ player_name \in Names
    /\ tokens \in UNION {TokenLists(r) : r \in Regions}
    /\ results \in UNION {[1..n -> {"pending", "none", "bytes"}] : n \in 0..MaxTokens}
    /\ like_result \in {None} \cup [sent : 0..MaxTokens, added : 0..MaxTokens]
    /\ current_tokens \in UNION {TokenLists(r) : r \in Regions}
    /\ new_info \in Snapshot \cup {None}
    /\ built \in 0..1
    /\ nresults \in 0..1
    /\ inflight \in 0..MaxTokens
    /\ raised \in {"none", "get_tokens", "encode_uid", "encrypt_aes", "get_headers",
                   "decode_info"}
    /\ lookup \in {"none", "error", "status", "undecodable", "ok"}
    /\ locate_had_tokens \in BOOLEAN
    /\ answer \in NetOutcomes \cup {None}
    /\ health \in {None}
                 \cup [status : {"healthy", "degraded"}, servers : [Regions -> BOOLEAN],
                       http : {200}]
                 \cup [status : {"unhealthy"}, error : {"get_tokens"}, http : {500}]

Init ==
    /\ pool \in PoolStates
    /\ pc = "validating"
    /\ uid \in Uids
    /\ idx = 1
    /\ region = NoRegion
    /\ player_info = None
    /\ before_likes = 0
    /\ player_name = ""
    /\ tokens = <<>>
    /\ results = <<>>
    /\ like_result = None
    /\ current_tokens = <<>>
    /\ new_info = None
    /\ calls = <<>>
    /\ built = 0
    /\ inflight = 0
    /\ result = None
    /\ nresults = 0
    /\ raised = "none"
    /\ lookup = "none"
    /\ locate_had_tokens = FALSE
    /\ answer = None
    /\ health = None

-----------------------------------------------------------------------------
(* The responses of like_player.                                           *)
InvalidResponse ==
    [error |-> "Invalid UID", status |-> 400, http |-> 400]

(* The "not found" answer of a route that reports a null player with 200.  *)
NotFoundResponse_Ok ==
    [error |-> "Player not found", status |-> 200, http |-> 200]

NotFoundResponse ==
    [error |-> "Player not found", status |-> 404, http |-> 404]

InternalError(msg) ==
    [error |-> "Internal server error", message |-> msg, status |-> 500, http |-> 500]

(* A status that reports an unchanged counter as an increase.              *)
LikeStatus_Ge(before, after) == IF after >= before THEN 1 ELSE 2

(* `1 if after_likes > before_likes else 2`                                *)
LikeStatus(before, after) == IF after > before THEN 1 ELSE 2

LikeResponse(after) ==
    [player |-> player_name, uid |-> uid.text,
     likes_added |-> after - before_likes,
     likes_before |-> before_likes, likes_after |-> after,
     server_used |-> region, status |-> LikeStatus(before_likes, after),
     http |-> 200]

(* `return jsonify(...)`: the request ends at `at` with response `resp`.   *)
Return(at, resp) ==
    /\ pc' = at
    /\ result' = resp
    /\ nresults' = nresults + 1

(* A like_player without its handler: the exception leaves the view.       *)
Fail_Propagate(msg) ==
    /\ pc' = "crashed"
    /\ UNCHANGED <<result, nresults>>

(* `except Exception as e:` of like_player.                                *)
Fail(msg) == Return("failed", InternalError(msg))

(* An exception raised inside like_player's try block.                     *)
Raise(fault) ==
    /\ raised' = fault
    /\ Fail(fault)

-----------------------------------------------------------------------------
(* A validation whose 400 response is built but not returned.              *)
Validate_FallThrough ==
    /\ UNCHANGED <<answer, health>>
    /\ pc = "validating"
    /\ IF InvalidUid(uid)
       THEN /\ result' = InvalidResponse
            /\ nresults' = nresults + 1
       ELSE UNCHANGED <<result, nresults>>
    /\ pc' = "locating"
    /\ locate_had_tokens' = HasTokens(pool)
    /\ UNCHANGED <<pool, locals, effects, raised, lookup>>

(* like_player, lines 86-93: validation.                                   *)
Validate ==
    /\ UNCHANGED <<answer, health>>
    /\ pc = "validating"
    /\ IF InvalidUid(uid)
       THEN Return("invalid", InvalidResponse) /\ UNCHANGED locate_had_tokens
       ELSE /\ pc' = "locating"
            /\ locate_had_tokens' = HasTokens(pool)
            /\ UNCHANGED <<result, nresults>>
    /\ UNCHANGED <<pool, locals, effects, raised, lookup>>

(* A locator that takes any decoded profile for a match.                   *)
IsMatch_AnyProfile(info) == info # None

(* Line 58: `player_info and player_info.AccountInfo.PlayerNickname`.      *)
IsMatch(info) == info # None /\ info.name # ""

(* A probe that uses the last token of the list.                           *)
ProbeToken_Last(toks) == toks[Len(toks)]

(* Line 55: `tokens[0]`.                                                   *)
ProbeToken(toks) == toks[1]

(* detect_player_region, lines 49-55: the loop head up to the await, and   *)
(* lines 60 and 97-103 once the loop is exhausted.                         *)
LocateStep ==
    /\ UNCHANGED <<answer, health>>
    /\ pc = "locating"
    /\ \/ /\ idx > Len(Servers)
          /\ Return("notfound", NotFoundResponse)
          /\ UNCHANGED <<idx, effects, raised>>
       \/ /\ idx <= Len(Servers)
          /\ \E fault \in {"none", "get_tokens", "encode_uid"} :
                IF fault = "get_tokens"
                   \/ (fault = "encode_uid" /\ get_tokens(Servers[idx]) # <<>>)
                THEN Raise(fault) /\ UNCHANGED <<idx, effects>>
                ELSE /\ fault = "none"
                     /\ UNCHANGED outcome
                     /\ IF get_tokens(Servers[idx]) = <<>>
                        THEN /\ idx' = idx + 1
                             /\ pc' = "locating"
                             /\ UNCHANGED effects
                        ELSE /\ pc' = "probing"
                             /\ calls' = Append(calls,
                                    Call("probe", Servers[idx],
                                         ProbeToken(get_tokens(Servers[idx])),
                                         encode_uid(uid)))
                             /\ inflight' = inflight + 1
                             /\ UNCHANGED <<idx, built>>
    /\ UNCHANGED <<pool, uid, region, player_info, before_likes, player_name,
                   tokens, results, like_result, current_tokens, new_info,
                   lookup, locate_had_tokens>>

(* async_post_request, lines 25-30, awaited at line 55: the exchange of    *)
(* the probe of region idx ends, with an answer, an error or the timeout.  *)
ProbeAnswer ==
    /\ pc = "probing"
    /\ answer' \in NetOutcomes
    /\ inflight' = inflight - 1
    /\ pc' = "probed"
    /\ UNCHANGED <<pool, locals, calls, built, outcome, lookup, locate_had_tokens,
                   health>>

(* A locator that probes the same region again after a probe that did not *)
(* match.                                                                  *)
ProbeResolve_Retry ==
    /\ pc = "probed"
    /\ answer' = None
    /\ UNCHANGED health
    /\ LET response == async_post_request(answer)
           again == /\ pc' = "locating"
                    /\ UNCHANGED <<idx, region, player_info, outcome>>
       IN IF Truthy(response)
          THEN \E decoded \in DecodeOutcomes(response) :
                  IF decoded = [raised |-> TRUE]
                  THEN Raise("decode_info") /\ UNCHANGED <<idx, region, player_info>>
                  ELSE IF decoded # None /\ decoded.name # ""
                       THEN /\ region' = Servers[idx]
                            /\ player_info' = decoded
                            /\ pc' = "located"
                            /\ UNCHANGED <<idx, outcome>>
                       ELSE again
          ELSE again
    /\ UNCHANGED <<pool, uid, before_likes, player_name, tokens, results,
                   like_result, current_tokens, new_info, effects,
                   lookup, locate_had_tokens>>

(* A locator that notes a match and goes on to the next region.           *)
ProbeResolve_KeepScanning ==
    /\ pc = "probed"
    /\ answer' = None
    /\ UNCHANGED health
    /\ LET response == async_post_request(answer)
           next == /\ idx' = idx + 1
                   /\ pc' = "locating"
                   /\ UNCHANGED <<region, player_info, outcome>>
       IN IF Truthy(response)
          THEN \E decoded \in DecodeOutcomes(response) :
                  IF decoded = [raised |-> TRUE]
                  THEN Raise("decode_info") /\ UNCHANGED <<idx, region, player_info>>
                  ELSE IF decoded # None /\ decoded.name # ""
                       THEN /\ region' = Servers[idx]
                            /\ player_info' = decoded
                            /\ idx' = idx + 1
                            /\ pc' = IF idx = Len(Servers) THEN "located" ELSE "locating"
                            /\ UNCHANGED outcome
                       ELSE next
          ELSE next
    /\ UNCHANGED <<pool, uid, before_likes, player_name, tokens, results,
                   like_result, current_tokens, new_info, effects,
                   lookup, locate_had_tokens>>

(* detect_player_region, lines 55-59: the response of the probe of region  *)
(* idx is read.                                                            *)
ProbeResolve ==
    /\ pc = "probed"
    /\ answer' = None
    /\ UNCHANGED health
    /\ LET response == async_post_request(answer)
           next == /\ idx' = idx + 1
                   /\ pc' = "locating"
                   /\ UNCHANGED <<region, player_info, outcome>>
       IN IF Truthy(response)
          THEN \E decoded \in DecodeOutcomes(response) :
                  IF decoded = [raised |-> TRUE]
                  THEN Raise("decode_info") /\ UNCHANGED <<idx, region, player_info>>
                  ELSE IF IsMatch(decoded)
                       THEN /\ region' = Servers[idx]
                            /\ player_info' = decoded
                            /\ pc' = "located"
                            /\ UNCHANGED <<idx, outcome>>
                       ELSE next
          ELSE next
    /\ UNCHANGED <<pool, uid, before_likes, player_name, tokens, results,
                   like_result, current_tokens, new_info, effects,
                   lookup, locate_had_tokens>>

(* like_player, lines 97 and 105-110: a player was found; send_likes is    *)
(* called with the region detect_player_region returned.                   *)
Located ==
    /\ UNCHANGED <<answer, health>>
    /\ pc = "located"
    /\ player_info # None
    /\ before_likes' = player_info.likes
    /\ player_name' = player_info.name
    /\ pc' = "dispatching"
    /\ UNCHANGED <<pool, uid, idx, region, player_info, tokens, results,
                   like_result, current_tokens, new_info, effects, outcome,
                   lookup, locate_had_tokens>>

(* A fan-out that always posts to the first configured server.             *)
LikeCalls_FirstServer(toks, r, payload) ==
    [i \in 1..Len(toks) |-> Call("like", Servers[1], toks[i], payload)]

(* send_likes, line 73: one task per token, all with the same payload.     *)
LikeCalls(toks, r, payload) ==
    [i \in 1..Len(toks) |-> Call("like", r, toks[i], payload)]

(* A fan-out that encrypts the payload anew for every token.               *)
PayloadBuilds_PerToken(toks) == Len(toks)

(* send_likes, line 71: `encrypted` is computed once, before the tasks.    *)
PayloadBuilds(toks) == 1

(* send_likes, lines 65-73: up to the await of asyncio.gather.             *)
DispatchStart ==
    /\ UNCHANGED <<answer, health>>
    /\ pc = "dispatching"
    /\ \E fault \in {"none", "get_tokens", "encrypt_aes"} :
          IF fault = "get_tokens" \/ (fault = "encrypt_aes" /\ get_tokens(region) # <<>>)
          THEN /\ Raise(fault)
               /\ UNCHANGED <<tokens, results, like_result, effects>>
          ELSE /\ fault = "none"
               /\ UNCHANGED outcome
               /\ IF get_tokens(region) = <<>>
                  THEN /\ like_result' = [sent |-> 0, added |-> 0]
                       /\ pc' = "verifying"
                       /\ UNCHANGED <<tokens, results, effects>>
                  ELSE /\ tokens' = get_tokens(region)
                       /\ built' = built + PayloadBuilds(tokens')
                       /\ results' = [i \in 1..Len(tokens') |-> "pending"]
                       /\ calls' = calls \o LikeCalls(tokens', region,
                                                      LikePayload(uid, region))
                       /\ inflight' = inflight + Len(tokens')
                       /\ pc' = "gathering"
                       /\ UNCHANGED like_result
    /\ UNCHANGED <<pool, uid, idx, region, player_info, before_likes, player_name,
                   current_tokens, new_info, lookup, locate_had_tokens>>

(* A gather in which the first task that fails cancels the tasks still     *)
(* pending.                                                                *)
CallResolve_CancelSiblings(i) ==
    /\ UNCHANGED <<answer, health>>
    /\ pc = "gathering"
    /\ results[i] = "pending"
    /\ \E net \in NetOutcomes :
          IF async_post_request(net) = None
          THEN /\ results' = [k \in 1..Len(results) |->
                                IF results[k] = "pending" THEN "none" ELSE results[k]]
               /\ inflight' = 0
          ELSE /\ results' = [results EXCEPT ![i] = "bytes"]
               /\ inflight' = inflight - 1
    /\ UNCHANGED <<pool, pc, uid, idx, region, player_info, before_likes,
                   player_name, tokens, like_result, current_tokens, new_info,
                   calls, built, outcome, lookup, locate_had_tokens>>

(* One task of the gather resolves (async_post_request, lines 22-30).      *)
CallResolve(i) ==
    /\ UNCHANGED <<answer, health>>
    /\ pc = "gathering"
    /\ results[i] = "pending"
    /\ \E net \in NetOutcomes :
          results' = [results EXCEPT ![i] =
                        IF async_post_request(net) = None THEN "none" ELSE "bytes"]
    /\ inflight' = inflight - 1
    /\ UNCHANGED <<pool, pc, uid, idx, region, player_info, before_likes,
                   player_name, tokens, like_result, current_tokens, new_info,
                   calls, built, outcome, lookup, locate_had_tokens>>

(* A wait that returns as soon as one task has resolved.                   *)
GatherReady_Any(res) == \E i \in 1..Len(res) : res[i] # "pending"

(* asyncio.gather returns once every task has resolved.                    *)
GatherReady(res) == \A i \in 1..Len(res) : res[i] # "pending"

(* An outcome that counts as sent only the calls that answered.            *)
GatherOutcome_SentAnswered(res) ==
    [sent |-> Cardinality({i \in 1..Len(res) : res[i] # "none"}),
     added |-> Cardinality({i \in 1..Len(res) : res[i] # "none"})]

(* send_likes, lines 76-79.                                                *)
GatherOutcome(res) ==
    [sent |-> Len(res),
     added |-> Cardinality({i \in 1..Len(res) : res[i] # "none"})]

(* send_likes, lines 74-79: the gather is over and send_likes returns; its *)
(* locals end with it.                                                     *)
GatherDone ==
    /\ UNCHANGED <<answer, health>>
    /\ pc = "gathering"
    /\ GatherReady(results)
    /\ like_result' = GatherOutcome(results)
    /\ tokens' = <<>>
    /\ results' = <<>>
    /\ pc' = "verifying"
    /\ UNCHANGED <<pool, uid, idx, region, player_info, before_likes, player_name,
                   current_tokens, new_info, effects, outcome, lookup,
                   locate_had_tokens>>

(* A like_player that verifies only when some like call answered.          *)
SkipVerify_NoneAdded(lr) == lr.added = 0

(* A like_player that always goes on to the verification.                  *)
SkipVerify_Never(lr) == FALSE

(* `if like_result["sent"] == 0: after_likes = before_likes`               *)
SkipVerify(lr) == lr.sent = 0

(* like_player, lines 113-120: up to the request of make_request.          *)
VerifyStart ==
    /\ UNCHANGED <<answer, health>>
    /\ pc = "verifying"
    /\ IF SkipVerify(like_result)
       THEN /\ Return("completed", LikeResponse(before_likes))
            /\ UNCHANGED <<current_tokens, effects, raised>>
       ELSE \E fault \in {"none", "get_tokens", "encode_uid", "get_headers"} :
              IF fault = "get_tokens" \/ (fault # "none" /\ get_tokens(region) # <<>>)
              THEN Raise(fault) /\ UNCHANGED <<current_tokens, effects>>
              ELSE /\ fault = "none"
                   /\ current_tokens' = get_tokens(region)
                   /\ IF current_tokens' = <<>>
                      THEN /\ Return("completed", LikeResponse(before_likes))
                           /\ UNCHANGED <<effects, raised>>
                      ELSE /\ calls' = Append(calls,
                                  Call("verify", region, current_tokens'[1],
                                       encode_uid(uid)))
                           /\ inflight' = inflight + 1
                           /\ pc' = "verify_wait"
                           /\ UNCHANGED <<built, outcome>>
    /\ UNCHANGED <<pool, uid, idx, region, player_info, before_likes, player_name,
                   tokens, results, like_result, new_info, lookup,
                   locate_had_tokens>>

(* How the exchange of the verification lookup went: a network error or a  *)
(* timeout, a transport status other than 200, a body that does not decode,*)
(* or a decoded profile.                                                   *)
LookupOutcome(net, decoded) ==
    IF net.err THEN "error"
    ELSE IF net.status # 200 THEN "status"
    ELSE IF decoded = None \/ decoded = [raised |-> TRUE] THEN "undecodable"
    ELSE "ok"

(* make_request, lines 37-44, and like_player, lines 120-132.              *)
VerifyResolve ==
    /\ UNCHANGED <<answer, health>>
    /\ pc = "verify_wait"
    /\ inflight' = inflight - 1
    /\ \E net \in NetOutcomes :
        \E decoded \in (IF net.err THEN {None} ELSE DecodeOutcomes(net.body)) :
          /\ new_info' = make_request(net, decoded)
          /\ lookup' = LookupOutcome(net, decoded)
          /\ LET after_likes == IF new_info' # None THEN new_info'.likes
                                ELSE before_likes
             IN Return("completed", LikeResponse(after_likes))
    /\ UNCHANGED <<pool, uid, idx, region, player_info, before_likes, player_name,
                   tokens, results, like_result, current_tokens, calls, built,
                   raised, locate_had_tokens>>

(* The token manager replaces the token list of a region.                  *)
PoolChange ==
    /\ UNCHANGED <<answer, health>>
    /\ \E r \in Regions : \E l \in TokenLists(r) :
          /\ l # pool[r]
          /\ pool' = [pool EXCEPT ![r] = l]
    /\ locate_had_tokens' = (locate_had_tokens \/ (pc \in LocateStage /\ HasTokens(pool')))
    /\ UNCHANGED <<pc, locals, effects, outcome, lookup>>

(* health_check, lines 145-148: `len(get_tokens(server)) > 0` per server.  *)
token_status == [server \in Regions |-> Len(get_tokens(server)) > 0]

(* A readiness that is satisfied by one region with tokens.                *)
HealthStatus_Any(status) ==
    IF \E server \in Regions : status[server] THEN "healthy" ELSE "degraded"

(* `"healthy" if all(token_status.values()) else "degraded"`               *)
HealthStatus(status) ==
    IF \A server \in Regions : status[server] THEN "healthy" ELSE "degraded"

(* health_check, lines 150-155.                                            *)
HealthResponse ==
    [status |-> HealthStatus(token_status), servers |-> token_status, http |-> 200]

(* health_check, lines 156-162: `except Exception as e:`.                  *)
UnhealthyResponse(msg) ==
    [status |-> "unhealthy", error |-> msg, http |-> 500]

(* A readiness check that evicts the token list of the first region.      *)
HealthCheck_Evict ==
    /\ \E fault \in {"none", "get_tokens"} :
          health' = IF fault = "none" THEN HealthResponse
                    ELSE UnhealthyResponse(fault)
    /\ pool' = [pool EXCEPT ![Servers[1]] = <<>>]
    /\ UNCHANGED <<pc, locals, effects, outcome, lookup, locate_had_tokens, answer>>

(* health_check, lines 143-162: the synchronous /health-check view; the    *)
(* pool lookup may raise.                                                  *)
HealthCheck ==
    /\ \E fault \in {"none", "get_tokens"} :
          health' = IF fault = "none" THEN HealthResponse
                    ELSE UnhealthyResponse(fault)
    /\ UNCHANGED <<pool, pc, locals, effects, outcome, lookup, locate_had_tokens,
                   answer>>

Next ==
    \/ Validate
    \/ LocateStep
    \/ ProbeAnswer
    \/ ProbeResolve
    \/ Located
    \/ DispatchStart
    \/ \E i \in 1..MaxTokens : i <= Len(results) /\ CallResolve(i)
    \/ GatherDone
    \/ VerifyStart
    \/ VerifyResolve
    \/ PoolChange

Spec == Init /\ [][Next]_vars

(* The steps of the /like request alone.                                   *)
RequestNext ==
    \/ Validate
    \/ LocateStep
    \/ ProbeAnswer
    \/ ProbeResolve
    \/ Located
    \/ DispatchStart
    \/ \E i \in 1..MaxTokens : i <= Len(results) /\ CallResolve(i)
    \/ GatherDone
    \/ VerifyStart
    \/ VerifyResolve

(* The event loop runs the request whenever it can take a step: every      *)
(* await of it resolves (an answer, a failure, or the 10 s timeout), and   *)
(* the pool answers every lookup.                                          *)
FairSpec == Spec /\ WF_vars(RequestNext)

(* The /health-check view beside a pool that changes.                       *)
HealthNext ==
    \/ HealthCheck
    \/ PoolChange

HealthSpec == Init /\ [][HealthNext]_vars

(* The two views of the blueprint, run by one server over one pool that    *)
(* nothing else touches.                                                   *)
ServerNext ==
    \/ RequestNext
    \/ HealthCheck

ServerSpec == Init /\ [][ServerNext]_vars

-----------------------------------------------------------------------------
(* Properties.                                                             *)

CallsOf(kind) == {i \in 1..Len(calls) : calls[i].kind = kind}

(* The identifier is missing, empty, or holds a character that is no digit.*)
BadIdentifier ==
    \/ ~uid.given
    \/ uid.text = <<>>
    \/ \E i \in 1..Len(uid.text) : uid.text[i] \notin DigitChars

(* C1: a request whose identifier is missing, empty or holds a non-digit   *)
(* character ends with the invalid-input response (400), and at no moment  *)
(* of it is a remote call (probe, like or verification lookup) initiated.  *)
C1_InvalidInputNoCall ==
    BadIdentifier =>
        /\ pc \in {"validating", "invalid"}
        /\ calls = <<>>
        /\ inflight = 0
        /\ pc = "invalid" => result = InvalidResponse /\ result.status = 400
        /\ pc = "validating" => result = None

C1_Witness ==
    /\ pc = "invalid"
    /\ uid.given
    /\ Len(uid.text) = 2
    /\ uid.text[1] \in DigitChars
    /\ uid.text[2] \notin DigitChars

(* C2: if no region had a token at any moment of the locate stage, a       *)
(* request with a valid identifier initiates no remote call, performs no   *)
(* dispatch and no verification, and ends "player not found" (404) -- the  *)
(* only other end being the pool lookup itself raising.                    *)
C2_NoCredentialsNotFound ==
    (pc # "validating" /\ ~BadIdentifier /\ ~locate_had_tokens) =>
        /\ pc \in {"locating", "notfound", "failed"}
        /\ calls = <<>>
        /\ inflight = 0
        /\ built = 0
        /\ region = NoRegion /\ player_info = None
        /\ like_result = None /\ new_info = None
        /\ pc = "notfound" => result = NotFoundResponse /\ result.status = 404
        /\ pc = "failed" => raised = "get_tokens"

C2_Witness ==
    /\ pc = "notfound"
    /\ ~locate_had_tokens
    /\ result.status = 404
    /\ calls = <<>>
    /\ ~BadIdentifier

(* The region of the last probe: the one the locator matched, when it did. *)
LastProbeServer ==
    LET probes == CallsOf("probe")
    IN calls[CHOOSE i \in probes : \A j \in probes : j <= i].server

(* C3: once the locator has matched region R (the region of its last       *)
(* probe), every like call and the verification lookup go to R's server    *)
(* with a token of R, and server_used is R.                                *)
C3_OnlyMatchedRegion ==
    /\ region # NoRegion =>
          /\ CallsOf("probe") # {}
          /\ region = LastProbeServer
    /\ \A i \in CallsOf("like") \cup CallsOf("verify") :
          /\ region # NoRegion
          /\ calls[i].server = LastProbeServer
          /\ calls[i].token.region = LastProbeServer
    /\ pc = "completed" => result.server_used = LastProbeServer

C3_Witness ==
    /\ pc = "completed"
    /\ region = Servers[2]
    /\ \E i \in CallsOf("probe") : calls[i].server = Servers[1]
    /\ Cardinality(CallsOf("like")) = 2
    /\ CallsOf("verify") # {}

(* C4: a dispatch round issues one like call per token that get_tokens     *)
(* returns at that step (whatever the list was while locating), and its    *)
(* outcome has sent = that number and 0 <= added <= sent, added being the  *)
(* number of calls that did not resolve to None.                           *)
C4_DispatchOutcome ==
    [][/\ (pc = "dispatching" /\ pc' = "gathering") =>
            /\ Len(results') = Len(pool[region])
            /\ Len(calls') - Len(calls) = Len(pool[region])
            /\ Len(pool[region]) > 0
       /\ (pc = "dispatching" /\ pc' = "verifying") =>
            /\ pool[region] = <<>>
            /\ like_result' = [sent |-> 0, added |-> 0]
       /\ (pc = "gathering" /\ pc' = "verifying") =>
            /\ like_result'.sent = Len(results)
            /\ like_result'.added =
                  Cardinality({i \in 1..Len(results) : results[i] = "bytes"})
       /\ like_result' # None =>
            /\ like_result'.sent = Cardinality(CallsOf("like")')
            /\ 0 <= like_result'.added
            /\ like_result'.added <= like_result'.sent]_vars

C4_Witness ==
    /\ pc = "completed"
    /\ like_result = [sent |-> 1, added |-> 0]
    /\ \E i \in CallsOf("probe") :
          /\ calls[i].server = region
          /\ MaxTokens + 1 - calls[i].token.id > 1

(* C5: when the dispatch outcome has sent = 0, no verification lookup is   *)
(* issued, and the request completes with likes_after = likes_before = the *)
(* counter of the locate snapshot, likes_added = 0 and status 2.           *)
C5_NothingSentNothingVerified ==
    (like_result # None /\ like_result.sent = 0) =>
        /\ pc \in {"verifying", "completed"}
        /\ CallsOf("like") = {} /\ CallsOf("verify") = {}
        /\ new_info = None /\ lookup = "none"
        /\ pc = "completed" =>
              /\ result.likes_before = player_info.likes
              /\ result.likes_after = player_info.likes
              /\ result.likes_added = 0
              /\ result.status = 2

C5_Witness ==
    /\ pc = "completed"
    /\ like_result = [sent |-> 0, added |-> 0]
    /\ pool[region] # <<>>
    /\ player_info.likes = 1

(* C6: when the verification lookup fails (network error or timeout, a     *)
(* transport status other than 200, or a body that does not decode), the   *)
(* request completes with likes_after = likes_before, likes_added = 0 and  *)
(* status 2, and not with the internal-failure response.                   *)
C6_VerifyFailureFallsBack ==
    lookup \in {"error", "status", "undecodable"} =>
        /\ pc = "completed"
        /\ raised = "none"
        /\ new_info = None
        /\ result.http = 200
        /\ result.likes_before = player_info.likes
        /\ result.likes_after = player_info.likes
        /\ result.likes_added = 0
        /\ result.status = 2

C6_Witness ==
    /\ pc = "completed"
    /\ lookup = "undecodable"
    /\ like_result.added > 0
    /\ result.status = 2

(* C7: a completed request reports likes_added = likes_after -             *)
(* likes_before, where likes_before is the counter of the locate snapshot  *)
(* and likes_after the counter re-read (likes_before when none was read);  *)
(* status is 1 exactly when likes_added > 0 and 2 otherwise.               *)
C7_DeltaAndStatus ==
    pc = "completed" =>
        /\ result.likes_before = player_info.likes
        /\ result.likes_after =
              (IF new_info # None THEN new_info.likes ELSE player_info.likes)
        /\ result.likes_added = result.likes_after - result.likes_before
        /\ result.status = 1 <=> result.likes_added > 0
        /\ result.status = 2 <=> result.likes_added <= 0
        /\ (new_info # None /\ new_info.likes = player_info.likes + 1) =>
              (result.likes_added = 1 /\ result.status = 1)

C7_Witness ==
    /\ pc = "completed"
    /\ like_result = [sent |-> 2, added |-> 2]
    /\ new_info # None
    /\ new_info.likes = player_info.likes + 1
    /\ result.likes_added = 1
    /\ result.status = 1

KindRank(kind) == CASE kind = "probe" -> 1 [] kind = "like" -> 2 [] kind = "verify" -> 3

(* C8: the calls of a request are issued in the order probes, like calls,  *)
(* verification lookup; a like call is issued only after the locator has   *)
(* returned a match and no probe is pending; the verification lookup is    *)
(* issued only after every like call of the round has resolved.            *)
C8_StageOrder ==
    /\ \A i, j \in 1..Len(calls) :
          i < j => KindRank(calls[i].kind) <= KindRank(calls[j].kind)
    /\ CallsOf("like") # {} =>
          /\ region # NoRegion /\ player_info # None
          /\ pc \notin {"validating", "locating", "probing", "probed", "located",
                      "dispatching"}
    /\ pc = "gathering" =>
          /\ CallsOf("verify") = {}
          /\ inflight = Cardinality({i \in 1..Len(results) : results[i] = "pending"})
    /\ CallsOf("verify") # {} =>
          /\ like_result # None
          /\ like_result.sent = Cardinality(CallsOf("like"))
          /\ pc \in {"verify_wait", "completed"}
          /\ inflight = (IF pc = "verify_wait" THEN 1 ELSE 0)

C8_Witness ==
    /\ pc = "verify_wait"
    /\ Cardinality(CallsOf("like")) = 2
    /\ like_result = [sent |-> 2, added |-> 1]
    /\ inflight = 1

Stage(p) ==
    CASE p = "validating" -> "Validating"
      [] p \in {"locating", "probing", "probed"} -> "Locating"
      [] p = "notfound" -> "NotFound"
      [] p = "located" -> "Located"
      [] p \in {"dispatching", "gathering"} -> "Dispatching"
      [] p \in {"verifying", "verify_wait"} -> "Verifying"
      [] p = "completed" -> "Completed"
      [] p = "failed" -> "Failed"
      [] p = "invalid" -> "InvalidInput"
      [] OTHER -> "Unknown"

RunningStages == {"Validating", "Locating", "Located", "Dispatching", "Verifying"}

ClaimedTransitions ==
    {<<"Validating", "Locating">>, <<"Locating", "NotFound">>,
     <<"Locating", "Located">>, <<"Located", "Dispatching">>,
     <<"Dispatching", "Verifying">>, <<"Verifying", "Completed">>}
    \cup {<<s, "Failed">> : s \in RunningStages}

(* Every step follows `transitions`; the stages in `terminal` are final    *)
(* (no stage, call or response follows); and a response has been returned  *)
(* exactly when the request is in a terminal stage, and then exactly one.  *)
FollowsMachine(transitions, terminal) ==
    /\ Stage(pc') # Stage(pc) => <<Stage(pc), Stage(pc')>> \in transitions
    /\ Stage(pc) \in terminal =>
          /\ pc' = pc
          /\ calls' = calls /\ inflight' = inflight /\ built' = built
          /\ result' = result /\ nresults' = nresults
    /\ nresults = (IF Stage(pc) \in terminal THEN 1 ELSE 0)
    /\ nresults' = (IF Stage(pc') \in terminal THEN 1 ELSE 0)

(* C9 as stated: only the transitions Validating -> Locating ->            *)
(* {NotFound, Located} -> Dispatching -> Verifying -> Completed and those  *)
(* to Failed, with NotFound, Completed and Failed terminal.                *)
C9_ClaimedMachine ==
    [][FollowsMachine(ClaimedTransitions, {"NotFound", "Completed", "Failed"})]_vars

(* C9, amended: the same machine with the transition Validating ->         *)
(* InvalidInput and InvalidInput terminal as well.                         *)
C9_MachineWithInvalidInput ==
    [][FollowsMachine(ClaimedTransitions \cup {<<"Validating", "InvalidInput">>},
                      {"NotFound", "Completed", "Failed", "InvalidInput"})]_vars

C9_Witness ==
    /\ pc = "completed"
    /\ nresults = 1
    /\ CallsOf("verify") # {}

(* C10: an exception raised by a collaborator inside like_player (pool     *)
(* lookup, identifier encoding, payload building, header building,         *)
(* decoding) ends the request with the internal-failure response (500):    *)
(* one well-formed response, and no other way out of like_player.          *)
C10_FaultsBecomeInternalFailure ==
    /\ pc \in Pcs
    /\ raised # "none" =>
          /\ pc = "failed"
          /\ result = InternalError(raised)
          /\ result.status = 500 /\ result.http = 500
          /\ nresults = 1
    /\ pc = "failed" => raised # "none"
    /\ pc \in Terminal => result # None /\ nresults = 1

C10_Witness ==
    /\ pc = "failed"
    /\ raised = "encrypt_aes"
    /\ CallsOf("probe") # {}
    /\ result.status = 500

-----------------------------------------------------------------------------
(* No call is made twice: the calls of one request differ pairwise in      *)
(* kind, region, credential or payload.                                    *)
NoRetry == \A i, j \in 1..Len(calls) : calls[i] = calls[j] => i = j

(* One probe per region, one like call per credential, one lookup.         *)
MostCalls == Len(Servers) + MaxTokens + 1

ResultStatuses == {400, 404, 1, 2, 500}

(* C11: when every await resolves and the pool answers, every /like        *)
(* request reaches a terminal state with exactly one structured result     *)
(* whose status is 400, 404, 1, 2 or 500; on the way it makes at most one  *)
(* probe per region, one like call per credential and one lookup, and      *)
(* repeats none of them.                                                   *)
C11_TerminatesWithoutRetry ==
    /\ [](NoRetry /\ Len(calls) <= MostCalls)
    /\ <>[](/\ pc \in Terminal
            /\ nresults = 1
            /\ result.status \in ResultStatuses
            /\ inflight = 0)

(* A request whose probe of the first region, whose like calls and whose   *)
(* lookup all failed, ended with every call made once.                     *)
C11_Witness ==
    /\ pc = "completed"
    /\ Len(calls) = MostCalls
    /\ like_result.added = 0
    /\ lookup = "error"
    /\ result.status = 2

-----------------------------------------------------------------------------
(* C12: a /health-check answers either with the map that holds, for each  *)
(* configured region, whether the pool has a token for it at that moment,  *)
(* and with "healthy" when every region has one and "degraded" when some   *)
(* region has none, or - when the check itself raised - with "unhealthy",  *)
(* the error and HTTP 500.                                                 *)
C12_Readiness ==
    [][health' # health =>
         \/ /\ health'.status = "unhealthy"
            /\ health'.http = 500
            /\ health'.error = "get_tokens"
         \/ /\ health'.http = 200
            /\ DOMAIN health'.servers = Regions
            /\ \A r \in Regions : health'.servers[r] = (pool[r] # <<>>)
            /\ (health'.status = "healthy") = (\A r \in Regions : pool[r] # <<>>)
            /\ (health'.status = "degraded") = (\E r \in Regions : pool[r] = <<>>)
      ]_vars

(* A check that found tokens for one region and none for the other.        *)
C12_Witness ==
    /\ health # None
    /\ health.status = "degraded"
    /\ \E r, q \in Regions : health.servers[r] /\ ~health.servers[q]
    /\ \A r \in Regions : health.servers[r] = (pool[r] # <<>>)

-----------------------------------------------------------------------------
(* The position of region r in _SERVERS.                                   *)
ServerIndex(r) == CHOOSE i \in 1..Len(Servers) : Servers[i] = r

(* Lines 56-59: the answer the locator takes for a match.                  *)
AnswerMatches(net) ==
    /\ ~net.err
    /\ net.body.kind = "profile"
    /\ net.body.name # ""

(* C13: probes go out one at a time in the order of _SERVERS - a probe is  *)
(* issued only when none is in flight, and every probe is of a later       *)
(* region than the probes before it; the locator returns exactly when a    *)
(* probe matches, with the region of that probe, so the returned region is *)
(* the first whose probe matched, and no later region is ever probed.      *)
C13_SequentialFirstMatch ==
    /\ [](/\ \A i, j \in CallsOf("probe") :
                i < j => ServerIndex(calls[i].server) < ServerIndex(calls[j].server)
          /\ pc \in LocateStage => inflight = (IF pc = "probing" THEN 1 ELSE 0)
          /\ region # NoRegion =>
                \A i \in CallsOf("probe") :
                    ServerIndex(calls[i].server) <= ServerIndex(region))
    /\ [][/\ (pc = "locating" /\ pc' = "probing") =>
                /\ inflight = 0
                /\ calls'[Len(calls')].server = Servers[idx]
          /\ (pc = "probed" /\ pc' # "probed" /\ AnswerMatches(answer)) =>
                /\ pc' = "located"
                /\ region' = Servers[idx]
                /\ calls[Len(calls)].server = Servers[idx]
          /\ (pc # "located" /\ pc' = "located") =>
                /\ pc = "probed"
                /\ AnswerMatches(answer)
         ]_vars

(* The first region matched; the second has tokens and was never probed.   *)
C13_Witness ==
    /\ pc = "completed"
    /\ region = Servers[1]
    /\ pool[Servers[2]] # <<>>
    /\ Cardinality(CallsOf("probe")) = 1

-----------------------------------------------------------------------------
(* C14: when the locator reaches a region and the step does not fault, an  *)
(* empty token list makes it pass to the next region without a call, and   *)
(* a non-empty list makes it issue one probe of that region with the first *)
(* token of the list; no two probes of a request are of the same region,   *)
(* every probe carries a token of the region it probes, and there are at   *)
(* most as many probes as regions.                                         *)
C14_SkipEmptyProbeOnce ==
    /\ [](/\ \A i, j \in CallsOf("probe") : calls[i].server = calls[j].server => i = j
          /\ \A i \in CallsOf("probe") : calls[i].token.region = calls[i].server
          /\ Cardinality(CallsOf("probe")) <= Len(Servers)
          /\ pc = "locating" =>
                \A i \in CallsOf("probe") : ServerIndex(calls[i].server) < idx)
    /\ [][(/\ pc = "locating"
           /\ idx <= Len(Servers)
           /\ pc' # "failed"
           /\ <<pc, idx, calls>>' # <<pc, idx, calls>>) =>
              IF pool[Servers[idx]] = <<>>
              THEN /\ calls' = calls
                   /\ inflight' = inflight
                   /\ idx' = idx + 1
                   /\ pc' = "locating"
              ELSE /\ calls' = Append(calls, Call("probe", Servers[idx],
                                                  pool[Servers[idx]][1], encode_uid(uid)))
                   /\ idx' = idx
                   /\ pc' = "probing"
         ]_vars

(* The first region had no token and got no call; the second is probed     *)
(* with the first of its two tokens.                                       *)
C14_Witness ==
    /\ pc = "probing"
    /\ idx = 2
    /\ pool[Servers[1]] = <<>>
    /\ Len(pool[Servers[2]]) = 2
    /\ calls = <<Call("probe", Servers[2], pool[Servers[2]][1], encode_uid(uid))>>

-----------------------------------------------------------------------------
(* A probe that failed: the exchange raised or timed out, the transport    *)
(* status is not 200, or the body is not a decodable profile.              *)
ProbeFailed(net) ==
    \/ net.err
    \/ net.status # 200
    \/ net.body.kind # "profile"

(* C15: when the probe of a region has failed - by a network error, by a   *)
(* transport status other than 200 or by a body that does not decode -     *)
(* the locator goes on to the next region: that region is not returned as  *)
(* the match and the request does not end with the internal-failure        *)
(* response.                                                               *)
C15_FailedProbeMeansAbsent ==
    [][(pc = "probed" /\ pc' # "probed" /\ ProbeFailed(answer)) =>
          /\ pc' = "locating"
          /\ idx' = idx + 1
          /\ region' = region
          /\ nresults' = nresults
      ]_vars

-----------------------------------------------------------------------------
(* C16: the profile the locator returns has a non-empty name, so the name  *)
(* a request carries from Located on, and the `player` of the response of  *)
(* a completed request, is non-empty; and a probe answer that decodes to a *)
(* profile with an empty name sends the locator on to the next region.     *)
C16_MatchHasName ==
    /\ [](/\ player_info # None => player_info.name # ""
          /\ region # NoRegion => player_info # None
          /\ pc \in {"dispatching", "gathering", "verifying", "verify_wait", "completed"} =>
                player_name # ""
          /\ pc = "completed" => result.player # "")
    /\ [][(/\ pc = "probed"
           /\ pc' # "probed"
           /\ ~answer.err
           /\ answer.body.kind = "profile"
           /\ answer.body.name = "") =>
              /\ pc' = "locating"
              /\ idx' = idx + 1
              /\ region' = NoRegion
              /\ player_info' = None
         ]_vars

(* The probe of the first region did not match, and the second region     *)
(* answers with a profile that has no name.                                *)
C16_Witness ==
    /\ pc = "probed"
    /\ idx = 2
    /\ Cardinality(CallsOf("probe")) = 2
    /\ ~answer.err
    /\ answer.body.kind = "profile"
    /\ answer.body.name = ""

-----------------------------------------------------------------------------
(* The tasks of the gather that have not resolved.                         *)
Pending == {i \in 1..Len(results) : results[i] = "pending"}

(* C17: a dispatch round over N tokens starts N like calls in one step,    *)
(* one per token, all in flight before any has resolved; each later step   *)
(* of the round resolves exactly one pending call and leaves every other   *)
(* call as it was, whether that call failed or answered; the round ends    *)
(* only when all N have resolved, never by raising, and its outcome is     *)
(* N and the number of calls that answered, whatever order they resolved   *)
(* in.                                                                     *)
C17_GatherAll ==
    /\ [](pc = "gathering" =>
            /\ Len(results) = Len(tokens)
            /\ inflight = Cardinality(Pending)
            /\ Cardinality(CallsOf("like")) = Len(tokens)
            /\ \A k \in 1..Len(tokens) :
                  Cardinality({i \in CallsOf("like") : calls[i].token = tokens[k]}) = 1)
    /\ [][/\ (pc = "dispatching" /\ pc' = "gathering") =>
                /\ Len(results') > 0
                /\ \A k \in 1..Len(results') : results'[k] = "pending"
                /\ inflight' = Len(results')
          /\ (pc = "gathering" /\ pc' = "gathering" /\ results' # results) =>
                /\ \E i \in Pending :
                      /\ results'[i] \in {"none", "bytes"}
                      /\ \A k \in 1..Len(results) : k # i => results'[k] = results[k]
                /\ Len(results') = Len(results)
                /\ <<tokens, calls, outcome>>' = <<tokens, calls, outcome>>
          /\ (pc = "gathering" /\ pc' # "gathering") =>
                /\ pc' = "verifying"
                /\ Pending = {}
                /\ raised' = raised
                /\ like_result' =
                      [sent |-> Len(results),
                       added |-> Cardinality({i \in 1..Len(results) : results[i] = "bytes"})]
         ]_vars

(* One call of the round has failed, its sibling has answered.             *)
C17_Witness ==
    /\ pc = "gathering"
    /\ results = <<"none", "bytes">>

-----------------------------------------------------------------------------
(* C18: a request has built one like payload if it has issued like calls   *)
(* and none otherwise; all its like calls carry that one payload - the     *)
(* encoding of the identifier and the matched region - and differ in their *)
(* token; a round that found the token list empty built no payload and     *)
(* issued no call.                                                         *)
C18_OnePayload ==
    /\ built = (IF CallsOf("like") # {} THEN 1 ELSE 0)
    /\ \A i \in CallsOf("like") : calls[i].payload = LikePayload(uid, region)
    /\ \A i, j \in CallsOf("like") :
          /\ calls[i].payload = calls[j].payload
          /\ i # j => calls[i].token # calls[j].token
    /\ (like_result # None /\ like_result.sent = 0) =>
          /\ built = 0
          /\ CallsOf("like") = {}

(* Two like calls are in flight and one payload was built.                 *)
C18_Witness ==
    /\ pc = "gathering"
    /\ Pending = {1, 2}
    /\ Cardinality(CallsOf("like")) = 2
    /\ built = 1

-----------------------------------------------------------------------------
(* C19: after a dispatch round that sent at least one like call - whether  *)
(* or not any of them answered - the verification step, when it does not   *)
(* fault, reads the region's token list as it is at that moment: if the    *)
(* list is non-empty it issues one lookup with the first token of that     *)
(* list, and if the list is empty it issues no lookup and the request      *)
(* completes with likes_after = likes_before, likes_added = 0 and status   *)
(* 2; a request never makes more than one verification lookup.             *)
C19_VerifyByCurrentTokens ==
    /\ [](Cardinality(CallsOf("verify")) <= 1)
    /\ [][(/\ pc = "verifying"
           /\ pc' \notin {"verifying", "failed"}
           /\ like_result.sent > 0) =>
              IF pool[region] = <<>>
              THEN /\ calls' = calls
                   /\ pc' = "completed"
                   /\ result'.likes_after = before_likes
                   /\ result'.likes_added = 0
                   /\ result'.status = 2
              ELSE /\ calls' = Append(calls, Call("verify", region, pool[region][1],
                                                  encode_uid(uid)))
                   /\ pc' = "verify_wait"
         ]_vars

(* No like call answered, and the lookup goes out with a token that        *)
(* neither the probe nor a like call used.                                 *)
C19_Witness ==
    /\ pc = "verify_wait"
    /\ like_result.sent > 0
    /\ like_result.added = 0
    /\ \E v \in CallsOf("verify") :
          \A i \in CallsOf("probe") \cup CallsOf("like") : calls[i].token # calls[v].token

-----------------------------------------------------------------------------
(* C20: no step of a /like request - validation, locate, dispatch,         *)
(* verification - and no /health-check changes the token list of any       *)
(* region, however the steps of the two views interleave; the region       *)
(* table is fixed once the routes are initialized.                         *)
C20_PoolReadOnly ==
    [][/\ pool' = pool
       /\ DOMAIN pool' = Regions
      ]_vars

(* A request went through locate, dispatch and verification beside a       *)
(* readiness check, and the pool still holds both tokens of every region.  *)
C20_Witness ==
    /\ pc = "completed"
    /\ health # None
    /\ health.status = "healthy"
    /\ Cardinality(CallsOf("like")) = MaxTokens
    /\ CallsOf("verify") # {}
    /\ \A r \in Regions : Len(pool[r]) = MaxTokens

=============================================================================
